---------------------------- MODULE Spec2Model ----------------------------
(***************************************************************************)
(* Model of the module build protocol of sept_core (sept_module.rs):       *)
(* the Module builder, its four-phase build, the import memo of the        *)
(* ApplicationContext and the ResolvedModule it produces.  The Graph       *)
(* engine (crate::graph) and the derived construction contracts are not    *)
(* part of sept_module.rs; they are modelled from the design document.     *)
(***************************************************************************)
EXTENDS Integers, Sequences, FiniteSets, TLC

\* Deepest nesting of build() calls the model follows (the call stack).
MaxDepth == 6

(***************************************************************************)
(* Capability types and construction contracts (external collaborator).   *)
(***************************************************************************)
Types == {"T", "U", "V", "W", "R", "Q2", "S", "Z", "K", "L"}

\* Injected: the dependency list of every type that has a construction
\* contract.  "V" and "W" have none (plain values / unknown types).
Contract ==
    [ty \in {"T", "U", "R", "Q2", "S", "Z", "K", "L"} |->
        CASE ty = "T"  -> <<>>
          [] ty = "U"  -> <<>>
          [] ty = "R"  -> <<"T">>
          [] ty = "Q2" -> <<"T", "U">>
          [] ty = "S"  -> <<"U", "W">>
          [] ty = "Z"  -> <<"V">>
          [] ty = "K"  -> <<"L">>
          [] ty = "L"  -> <<"K">>]

\* TypeId::of::<T>() and TypeId::of::<Arc<T>>() are different keys.
TypeId(ty) == [arc |-> FALSE, ty |-> ty]
ArcTypeId(ty) == [arc |-> TRUE, ty |-> ty]

\* A shared instance (one Arc allocation): its identity, the type of the
\* value it holds and the build() invocation that allocated it (0: seeded).
Instance(n, ty, home) == [id |-> n, ty |-> ty, home |-> home]
NoInstance == [id |-> 0, ty |-> "", home |-> 0]

(***************************************************************************)
(* Graph: capability key -> shared instance.                               *)
(***************************************************************************)
GraphNew == [k \in {} |-> NoInstance]

GraphProvide(g, k, inst) ==
    [x \in DOMAIN g \cup {k} |-> IF x = k THEN inst ELSE g[x]]

get_node(g, k) == IF k \in DOMAIN g THEN g[k] ELSE NoInstance

filter_by(g, export_set) ==
    [k \in DOMAIN g \cap export_set |-> g[k]]

\* Result of a resolution: err = "" on success.
ResolveOk(g, inst, next, made) ==
    [err |-> "", errty |-> "", graph |-> g, inst |-> inst, next |-> next,
     made |-> made]
ResolveErr(kind, ty, g, next, made) ==
    [err |-> kind, errty |-> ty, graph |-> g, inst |-> NoInstance,
     next |-> next, made |-> made]

\* Index of the first search graph holding k, 0 when none does.
FirstHolder(search_graphs, k) ==
    LET hits == {i \in 1..Len(search_graphs) : k \in DOMAIN search_graphs[i]}
    IN IF hits = {} THEN 0
       ELSE CHOOSE i \in hits : \A j \in hits : i <= j

RECURSIVE resolve(_, _, _, _, _, _)
RECURSIVE resolve_deps(_, _, _, _, _, _, _)

\* Resolve the dependencies deps[i..] in order, threading the graph.
resolve_deps(g, search_graphs, deps, i, pending, next, home) ==
    IF i > Len(deps) THEN ResolveOk(g, NoInstance, next, <<>>)
    ELSE LET r == resolve(g, search_graphs, deps[i], pending, next, home)
         IN IF r.err # "" THEN r
            ELSE LET rest == resolve_deps(r.graph, search_graphs, deps, i + 1,
                                          pending, r.next, home)
                 IN [rest EXCEPT !.made = r.made \o rest.made]

\* The construction contract of ty applied: dependencies first, then the
\* builder function, whose result is a new instance.
construct(g, search_graphs, ty, pending, next, home) ==
    IF ty \in pending
    THEN ResolveErr("CyclicDependency", ty, g, next, <<>>)
    ELSE IF ty \notin DOMAIN Contract
    THEN ResolveErr("UnresolvedCapability", ty, g, next, <<>>)
    ELSE LET d == resolve_deps(g, search_graphs, Contract[ty], 1,
                               pending \cup {ty}, next, home)
         IN IF d.err # "" THEN d
            ELSE ResolveOk(d.graph, Instance(d.next, ty, home), d.next + 1,
                           Append(d.made, ty))

\* Graph::resolve::<Arc<ty>>: own graph, then the search graphs in order,
\* then construction memoized into the own graph.
resolve(g, search_graphs, ty, pending, next, home) ==
    LET k == ArcTypeId(ty)
        h == FirstHolder(search_graphs, k)
    IN IF k \in DOMAIN g THEN ResolveOk(g, g[k], next, <<>>)
       ELSE IF h # 0
       THEN ResolveOk(GraphProvide(g, k, search_graphs[h][k]),
                      search_graphs[h][k], next, <<>>)
       ELSE LET c == construct(g, search_graphs, ty, pending, next, home)
            IN IF c.err # "" THEN c
               ELSE [c EXCEPT !.graph = GraphProvide(c.graph, k, c.inst)]

(***************************************************************************)
(* Module: the builder.  A deferred closure is represented by the type it  *)
(* captured.                                                               *)
(***************************************************************************)
ModuleNew ==
    [exports |-> {}, tokens |-> {}, imports |-> <<>>, providers |-> <<>>,
     provider_vals |-> <<>>, clients |-> <<>>]

\* Faulty variant: import() that records no closure.
importIgnored(self, m) == self

import(self, m) == [self EXCEPT !.imports = Append(@, m)]

\* Faulty variant: export() that marks the key of the bare type.
exportUnwrapped(self, ty) == [self EXCEPT !.exports = @ \cup {TypeId(ty)}]

export(self, ty) == [self EXCEPT !.exports = @ \cup {ArcTypeId(ty)}]

export_val(self, ty) == [self EXCEPT !.exports = @ \cup {TypeId(ty)}]

provide(self, ty) ==
    [self EXCEPT !.providers = Append(@, ty), !.tokens = @ \cup {TypeId(ty)}]

provide_val(self, ty) ==
    [self EXCEPT !.provider_vals = Append(@, ty),
                 !.tokens = @ \cup {TypeId(ty)}]

client(self, ty) ==
    [self EXCEPT !.clients = Append(@, ty), !.tokens = @ \cup {TypeId(ty)}]

\* A declaration of a module factory: one chained builder call.
Decl(op, arg) == [op |-> op, arg |-> arg]

ApplyDecl(self, d) ==
    CASE d.op = "import"      -> import(self, d.arg)
      [] d.op = "export"      -> export(self, d.arg)
      [] d.op = "export_val"  -> export_val(self, d.arg)
      [] d.op = "provide"     -> provide(self, d.arg)
      [] d.op = "provide_val" -> provide_val(self, d.arg)
      [] d.op = "client"      -> client(self, d.arg)

RECURSIVE ApplyDecls(_, _, _)
ApplyDecls(self, decls, i) ==
    IF i > Len(decls) THEN self
    ELSE ApplyDecls(ApplyDecl(self, decls[i]), decls, i + 1)

\* ModuleFactory::get_module for a factory whose body is the chain decls.
get_module(decls) == ApplyDecls(ModuleNew, decls, 1)

ResolvedModuleNew ==
    [graph |-> GraphNew, imports |-> <<>>, graphed_exports |-> GraphNew,
     clients |-> <<>>]


(***************************************************************************)
(* The module factories of the applications the model assembles.           *)
(***************************************************************************)
ModTypes == {"A", "B", "C", "P", "D", "G", "H", "E", "E2", "E3", "Wm",
             "F", "X", "Y", "Q", "O", "Kp", "Kc", "Lm", "K2", "Ex", "Va",
             "Vb", "Dup", "Vb2", "Zm"}

\* The declarations of module Q, taken in every order.
QDecls ==
    {Decl("import", "G"), Decl("import", "D"), Decl("provide_val", "V"),
     Decl("provide", "Z"), Decl("client", "R")}

QCanonical ==
    <<Decl("import", "G"), Decl("import", "D"), Decl("provide_val", "V"),
      Decl("provide", "Z"), Decl("client", "R")>>

Orderings(S) ==
    {s \in [1..Cardinality(S) -> S] : \A x \in S : \E i \in DOMAIN s : s[i] = x}

BaseDefs ==
    [m \in ModTypes |->
        CASE m = "A"  -> <<Decl("provide", "T"), Decl("export", "T")>>
          [] m = "B"  -> <<Decl("import", "A"), Decl("client", "T")>>
          [] m = "C"  -> <<Decl("import", "A"), Decl("provide", "R"),
                           Decl("export", "R")>>
          [] m = "P"  -> <<Decl("import", "B"), Decl("import", "C"),
                           Decl("client", "R")>>
          [] m = "D"  -> <<Decl("provide", "U"), Decl("client", "R"),
                           Decl("provide", "T"), Decl("export", "T")>>
          [] m = "G"  -> <<Decl("export", "T"), Decl("export", "U"),
                           Decl("provide", "T"), Decl("provide", "U"),
                           Decl("provide_val", "V")>>
          [] m = "H"  -> <<Decl("import", "D"), Decl("import", "G"),
                           Decl("provide", "R"), Decl("provide", "Q2"),
                           Decl("client", "T"), Decl("export", "R")>>
          [] m = "E"  -> <<Decl("provide", "U"), Decl("provide", "S")>>
          [] m = "E2" -> <<Decl("provide", "S"), Decl("provide_val", "W")>>
          [] m = "E3" -> <<Decl("import", "Wm"), Decl("import", "A"),
                           Decl("provide", "S")>>
          [] m = "Wm" -> <<Decl("provide_val", "W"), Decl("provide", "T")>>
          [] m = "F"  -> <<Decl("provide", "T"), Decl("client", "T"),
                           Decl("provide", "R"), Decl("provide", "Q2"),
                           Decl("client", "R")>>
          [] m = "X"  -> <<Decl("import", "Y"), Decl("provide", "S")>>
          [] m = "Y"  -> <<Decl("client", "T"), Decl("import", "X")>>
          [] m = "O"  -> <<Decl("client", "Q2"), Decl("provide", "R"),
                           Decl("provide", "T"), Decl("provide", "U")>>
          [] m = "Kp" -> <<Decl("provide", "T"), Decl("provide", "K")>>
          [] m = "Kc" -> <<Decl("provide", "T"), Decl("client", "L")>>
          [] m = "Lm" -> <<Decl("provide_val", "L")>>
          [] m = "K2" -> <<Decl("import", "Lm"), Decl("provide", "K")>>
          [] m = "Ex" -> <<Decl("export", "U"), Decl("export_val", "V"),
                           Decl("provide", "T"), Decl("export", "R"),
                           Decl("client", "R")>>
          [] m = "Va" -> <<Decl("provide_val", "V"), Decl("export_val", "V")>>
          [] m = "Vb" -> <<Decl("import", "Va"), Decl("provide", "Z")>>
          [] m = "Dup" -> <<Decl("provide", "T"), Decl("provide_val", "V"),
                            Decl("provide", "T"), Decl("provide_val", "V"),
                            Decl("provide", "R"), Decl("export", "T")>>
          [] m = "Vb2" -> <<Decl("provide_val", "V"), Decl("import", "Zm")>>
          [] m = "Zm" -> <<Decl("provide", "Z")>>
          [] m = "Q"  -> QCanonical]

\* The capabilities the global provider Graph may be seeded with.
GlobalSeeds == {"T", "U"}
SeedId(ty) == IF ty = "T" THEN 1 ELSE 2
FirstFreeInstance == Cardinality(GlobalSeeds) + 1

SeededGraph(seeds) ==
    [k \in {ArcTypeId(ty) : ty \in seeds} |-> Instance(SeedId(k.ty), k.ty, 0)]

(***************************************************************************)
(* State.                                                                  *)
(***************************************************************************)
VARIABLES
    defs,              \* module type -> the declarations of its factory
    root,              \* the module type the assembly builds
    global_providers,  \* ApplicationContext.global_providers
    modules,           \* ApplicationContext.modules: type -> Arc<ResolvedModule>
    heap,              \* Arc<ResolvedModule> allocations: id -> module
    stack,             \* the nested build() calls in progress
    status,            \* "ready", "building", "done" or "failed"
    error,             \* the failure build() ended with
    result,            \* the ResolvedModule the root build returned
    nextInst,          \* next instance identity
    nextBid,           \* next build() invocation identity
    trace              \* history: the steps executed, in order

vars == <<defs, root, global_providers, modules, heap, stack, status, error,
          result, nextInst, nextBid, trace>>

Event(bid, mtype, kind, arg) ==
    [bid |-> bid, mtype |-> mtype, kind |-> kind, arg |-> arg]

NoError == [kind |-> "", ty |-> ""]

\* The identity of the first build() of an assembly: the root's.
RootBid == 1

\* Faulty variant: build() running the provide loop before the provide_val loop.
PhaseOrderSwapped == <<"imports", "providers", "provider_vals", "clients">>

\* The order in which build() runs its four loops.
PhaseOrder == <<"imports", "provider_vals", "providers", "clients">>

\* Skip the loops that are exhausted: the position of the next step.
RECURSIVE Normalize(_)
Normalize(f) ==
    IF f.phase <= Len(PhaseOrder) /\ f.i > Len(f.self[PhaseOrder[f.phase]])
    THEN Normalize([f EXCEPT !.phase = @ + 1, !.i = 1])
    ELSE f

\* Entry of build(): a fresh ResolvedModule and the first step.
NewFrame(mtype, bid, decls) ==
    Normalize([mtype |-> mtype, bid |-> bid, self |-> get_module(decls),
               phase |-> 1, i |-> 1, module |-> ResolvedModuleNew])

Top == stack[Len(stack)]

CurPhase(f) ==
    IF f.phase <= Len(PhaseOrder) THEN PhaseOrder[f.phase] ELSE "filter_by"

CurStep(f) == f.self[PhaseOrder[f.phase]][f.i]

\* Faulty variant: search graphs that expose the imports' whole graphs.
SearchGraphsUnfiltered(module, global, hp) ==
    <<global>> \o
    [i \in 1..Len(module.imports) |-> hp[module.imports[i]].module.graph]

\* The graphs a provider or client closure passes to resolution.
SearchGraphs(module, global, hp) ==
    <<global>> \o
    [i \in 1..Len(module.imports) |-> hp[module.imports[i]].module.graphed_exports]

\* Faulty variant: build() that exports its whole graph.
BuildExportsUnfiltered(module, self) ==
    [module EXCEPT !.graphed_exports = module.graph]

\* Faulty variant: build() that returns before computing its exports.
BuildExportsSkipped(module, self) == module

\* The last statement of build(): the exported subgraph.
BuildExports(module, self) ==
    [module EXCEPT !.graphed_exports = filter_by(module.graph, self.exports)]

\* Faulty variant: an import closure that does not attach the module.
PushImportDropped(module, mid) == module

\* module.imports.push(resolved)
PushImport(module, mid) == [module EXCEPT !.imports = Append(@, mid)]

\* Faulty variant: a client closure that puts the client at the front.
PushClientFront(module, inst) == [module EXCEPT !.clients = <<inst>> \o @]

\* module.clients.push(Arc::new(resolved))
PushClient(module, inst) == [module EXCEPT !.clients = Append(@, inst)]

\* Arc::new(module): a new shared allocation holding the built module.
ArcNew(hp, id, mtype, module) ==
    [x \in DOMAIN hp \cup {id} |->
        IF x = id THEN [mtype |-> mtype, module |-> module] ELSE hp[x]]

\* ctx.modules.get / ctx.modules.insert
MemoHas(memo, m) == m \in DOMAIN memo

\* Faulty variant: an import closure that forgets to store the module it built.
MemoInsertForgotten(memo, m, mid) == memo

MemoInsert(memo, m, mid) ==
    [x \in DOMAIN memo \cup {m} |-> IF x = m THEN mid ELSE memo[x]]

ReplaceTop(f) == [stack EXCEPT ![Len(stack)] = f]

StepDone(f) == Normalize([f EXCEPT !.i = @ + 1])

ConstructEvents(f, made) ==
    [i \in 1..Len(made) |-> Event(f.bid, f.mtype, "construct", made[i])]

Init ==
    /\ \E order \in Orderings(QDecls) :
          /\ defs = [BaseDefs EXCEPT !["Q"] = order]
          /\ root \in (IF order = QCanonical THEN ModTypes ELSE {"Q"})
    /\ \E seeds \in SUBSET GlobalSeeds : global_providers = SeededGraph(seeds)
    /\ modules = [m \in {} |-> 0]
    /\ heap = [m \in {} |-> 0]
    /\ stack = <<>>
    /\ status = "ready"
    /\ error = NoError
    /\ result = ResolvedModuleNew
    /\ nextInst = FirstFreeInstance
    /\ nextBid = RootBid
    /\ trace = <<>>

\* The assembly calls build() on the root module.
BuildRoot ==
    /\ status = "ready"
    /\ status' = "building"
    /\ stack' = <<NewFrame(root, nextBid, defs[root])>>
    /\ nextBid' = nextBid + 1
    /\ trace' = Append(trace, Event(nextBid, root, "build", root))
    /\ UNCHANGED <<defs, root, global_providers, modules, heap, error, result,
                   nextInst>>

\* An import closure that finds the module in the memo.
ImportHit ==
    /\ status = "building"
    /\ CurPhase(Top) = "imports"
    /\ MemoHas(modules, CurStep(Top))
    /\ stack' = ReplaceTop(StepDone(
                    [Top EXCEPT !.module = PushImport(@, modules[CurStep(Top)])]))
    /\ trace' = Append(trace, Event(Top.bid, Top.mtype, "import", CurStep(Top)))
    /\ UNCHANGED <<defs, root, global_providers, modules, heap, status, error,
                   result, nextInst, nextBid>>

\* An import closure that misses the memo: it calls T::get_module().build(ctx).
ImportMiss ==
    /\ status = "building"
    /\ CurPhase(Top) = "imports"
    /\ ~MemoHas(modules, CurStep(Top))
    /\ Len(stack) < MaxDepth
    /\ stack' = Append(stack, NewFrame(CurStep(Top), nextBid, defs[CurStep(Top)]))
    /\ nextBid' = nextBid + 1
    /\ trace' = trace \o <<Event(Top.bid, Top.mtype, "import", CurStep(Top)),
                           Event(nextBid, CurStep(Top), "build", CurStep(Top))>>
    /\ UNCHANGED <<defs, root, global_providers, modules, heap, status, error,
                   result, nextInst>>

\* The nested build() returns into the import closure: Arc::new, memo insert,
\* push on the importer's import list.
ImportReturn ==
    /\ status = "building"
    /\ Len(stack) > 1
    /\ CurPhase(Top) = "filter_by"
    /\ LET f == Top
           caller == stack[Len(stack) - 1]
       IN /\ heap' = ArcNew(heap, f.bid, f.mtype, BuildExports(f.module, f.self))
          /\ modules' = MemoInsert(modules, f.mtype, f.bid)
          /\ stack' = Append(SubSeq(stack, 1, Len(stack) - 2),
                        StepDone([caller EXCEPT !.module = PushImport(@, f.bid)]))
          /\ trace' = Append(trace, Event(f.bid, f.mtype, "filter_by", f.mtype))
    /\ UNCHANGED <<defs, root, global_providers, status, error, result,
                   nextInst, nextBid>>

\* The root build() returns its ResolvedModule.
RootReturn ==
    /\ status = "building"
    /\ Len(stack) = 1
    /\ CurPhase(Top) = "filter_by"
    /\ result' = BuildExports(Top.module, Top.self)
    /\ status' = "done"
    /\ stack' = <<>>
    /\ trace' = Append(trace, Event(Top.bid, Top.mtype, "filter_by", Top.mtype))
    /\ UNCHANGED <<defs, root, global_providers, modules, heap, error,
                   nextInst, nextBid>>

\* Faulty variant: a value that does not replace the one already installed.
InstallValueKeepFirst(graph, inst) ==
    IF ArcTypeId(inst.ty) \in DOMAIN graph THEN graph
    ELSE GraphProvide(graph, ArcTypeId(inst.ty), inst)

\* module.graph.provide(Arc::new(t)): the value is stored as an Arc<T>.
InstallValue(graph, inst) == GraphProvide(graph, ArcTypeId(inst.ty), inst)

\* A provide_val closure: module.graph.provide(Arc::new(t)).
ProvideValStep ==
    /\ status = "building"
    /\ CurPhase(Top) = "provider_vals"
    /\ stack' = ReplaceTop(StepDone(
                    [Top EXCEPT !.module.graph =
                        InstallValue(@, Instance(nextInst, CurStep(Top), Top.bid))]))
    /\ nextInst' = nextInst + 1
    /\ trace' = Append(trace, Event(Top.bid, Top.mtype, "provide_val", CurStep(Top)))
    /\ UNCHANGED <<defs, root, global_providers, modules, heap, status, error,
                   result, nextBid>>

\* A failed resolution unwinds every build() in progress.
Unwind(r) ==
    /\ status' = "failed"
    /\ error' = [kind |-> r.err, ty |-> r.errty]
    /\ stack' = <<>>
    /\ nextInst' = r.next

\* A provide closure: module.graph.resolve::<Arc<T>>(&graphs).
ProviderStep ==
    /\ status = "building"
    /\ CurPhase(Top) = "providers"
    /\ LET f == Top
           r == resolve(f.module.graph,
                        SearchGraphs(f.module, global_providers, heap),
                        CurStep(f), {}, nextInst, f.bid)
       IN /\ trace' = Append(trace, Event(f.bid, f.mtype, "provide", CurStep(f)))
                        \o ConstructEvents(f, r.made)
          /\ IF r.err # ""
             THEN Unwind(r)
             ELSE /\ stack' = ReplaceTop(StepDone([f EXCEPT !.module.graph = r.graph]))
                  /\ nextInst' = r.next
                  /\ UNCHANGED <<status, error>>
    /\ UNCHANGED <<defs, root, global_providers, modules, heap, result, nextBid>>

\* A client closure: T::resolve(&mut module.graph, &graphs), then
\* module.clients.push(Arc::new(resolved)).
ClientStep ==
    /\ status = "building"
    /\ CurPhase(Top) = "clients"
    /\ LET f == Top
           r == construct(f.module.graph,
                          SearchGraphs(f.module, global_providers, heap),
                          CurStep(f), {}, nextInst, f.bid)
       IN /\ trace' = Append(trace, Event(f.bid, f.mtype, "client", CurStep(f)))
                        \o ConstructEvents(f, r.made)
          /\ IF r.err # ""
             THEN Unwind(r)
             ELSE /\ stack' = ReplaceTop(StepDone(
                        [f EXCEPT !.module =
                            PushClient([@ EXCEPT !.graph = r.graph], r.inst)]))
                  /\ nextInst' = r.next
                  /\ UNCHANGED <<status, error>>
    /\ UNCHANGED <<defs, root, global_providers, modules, heap, result, nextBid>>

Next ==
    \/ BuildRoot
    \/ ImportHit
    \/ ImportMiss
    \/ ImportReturn
    \/ RootReturn
    \/ ProvideValStep
    \/ ProviderStep
    \/ ClientStep

Spec == Init /\ [][Next]_vars

(***************************************************************************)
(* Vocabulary of the properties.                                           *)
(***************************************************************************)
\* The arguments of the declarations of kind op in module type m, in
\* declaration order.
DeclArgs(m, op) ==
    LET sel == SelectSeq(defs[m], LAMBDA d : d.op = op)
    IN [i \in 1..Len(sel) |-> sel[i].arg]

Range(s) == {s[i] : i \in DOMAIN s}

ImportsOf(m) == Range(DeclArgs(m, "import"))

RECURSIVE ImportClosure(_, _)
ImportClosure(S, n) ==
    IF n = 0 THEN S
    ELSE ImportClosure(S \cup UNION {ImportsOf(m) : m \in S}, n - 1)

\* The module types the root imports, directly or through its imports.
TransImports(m) == ImportClosure(ImportsOf(m), Cardinality(ModTypes))

\* Every ResolvedModule a build() has returned so far.
BuiltModules ==
    {[bid |-> b, mtype |-> heap[b].mtype, module |-> heap[b].module] :
        b \in DOMAIN heap}
    \cup (IF status = "done"
          THEN {[bid |-> RootBid, mtype |-> root, module |-> result]}
          ELSE {})

EventsOf(kinds, m) ==
    SelectSeq(trace, LAMBDA e : e.kind \in kinds /\ e.mtype = m)

BuildCount(m) == Len(EventsOf({"build"}, m))

StepKinds == {"import", "provide_val", "provide", "client", "filter_by"}

\* The steps build() invocation bid has executed, in execution order.
StepsOf(bid) ==
    LET sel == SelectSeq(trace, LAMBDA e : e.bid = bid /\ e.kind \in StepKinds)
    IN [i \in 1..Len(sel) |-> [kind |-> sel[i].kind, arg |-> sel[i].arg]]

DeclSteps(m, op, kind) ==
    LET args == DeclArgs(m, op)
    IN [i \in 1..Len(args) |-> [kind |-> kind, arg |-> args[i]]]

\* The steps the four phases prescribe for module type m.
PhasedSteps(m) ==
    DeclSteps(m, "import", "import") \o DeclSteps(m, "provide_val", "provide_val")
    \o DeclSteps(m, "provide", "provide") \o DeclSteps(m, "client", "client")
    \o <<[kind |-> "filter_by", arg |-> m]>>

IsPrefix(s, t) == Len(s) <= Len(t) /\ SubSeq(t, 1, Len(s)) = s

BidType(bid) ==
    LET sel == SelectSeq(trace, LAMBDA e : e.bid = bid /\ e.kind = "build")
    IN sel[1].mtype

Completed(bid) == bid \in DOMAIN heap \/ (bid = RootBid /\ status = "done")

(***************************************************************************)
(* C1 -- Diamond-import dedup: after building a root, every module type    *)
(* it imports (directly or through B and C) was built exactly once, each   *)
(* of its provider and client steps ran exactly once, and any two import   *)
(* list entries for the same module type are the same shared               *)
(* ResolvedModule, hence show the same exported instances.                 *)
(***************************************************************************)
C1_DiamondImportDedup ==
    status = "done" =>
        /\ \A m \in TransImports(root) :
              /\ BuildCount(m) = 1
              /\ Len(EventsOf({"provide"}, m)) = Len(DeclArgs(m, "provide"))
              /\ Len(EventsOf({"client"}, m)) = Len(DeclArgs(m, "client"))
        /\ \A b1, b2 \in BuiltModules :
              \A i \in DOMAIN b1.module.imports, j \in DOMAIN b2.module.imports :
                 heap[b1.module.imports[i]].mtype = heap[b2.module.imports[j]].mtype
                    => /\ b1.module.imports[i] = b2.module.imports[j]
                       /\ heap[b1.module.imports[i]].module.graphed_exports
                            = heap[b2.module.imports[j]].module.graphed_exports

\* P is built and two different modules (B and C) hold an entry for A.
C1_Witness ==
    /\ status = "done"
    /\ root = "P"
    /\ \E b1, b2 \in BuiltModules :
          /\ b1.mtype = "B" /\ b2.mtype = "C"
          /\ \E i \in DOMAIN b1.module.imports, j \in DOMAIN b2.module.imports :
                /\ heap[b1.module.imports[i]].mtype = "A"
                /\ heap[b2.module.imports[j]].mtype = "A"

(***************************************************************************)
(* C2 -- Phase order: whatever the declaration order, the steps one        *)
(* build() executes are, in this order, its import steps, its provide_val  *)
(* steps, its provide steps and its client steps, each group in            *)
(* declaration order, and the exported subgraph is computed last.          *)
(***************************************************************************)
C2_FourPhasesInOrder ==
    \A bid \in 1..(nextBid - 1) :
        /\ IsPrefix(StepsOf(bid), PhasedSteps(BidType(bid)))
        /\ Completed(bid) => StepsOf(bid) = PhasedSteps(BidType(bid))

\* Q built from a chain that declares its client first and an import last.
C2_Witness ==
    /\ status = "done"
    /\ root = "Q"
    /\ defs["Q"][1].op = "client"
    /\ defs["Q"][2].op = "provide"
    /\ defs["Q"][Len(defs["Q"])].op = "import"

\* Every module built or being built, with the build() that owns it.
AllModules ==
    BuiltModules
    \cup {[bid |-> stack[i].bid, mtype |-> stack[i].mtype,
           module |-> stack[i].module] : i \in DOMAIN stack}

\* The graphs the search order names for the frame f, in that order: own
\* Graph, global provider Graph, exported subgraph of each import.
Consulted(f) ==
    <<f.module.graph, global_providers>> \o
    [i \in 1..Len(f.module.imports) |->
        heap[f.module.imports[i]].module.graphed_exports]

Holders(f, k) == {i \in DOMAIN Consulted(f) : k \in DOMAIN Consulted(f)[i]}

Held(f, ty) == Holders(f, ArcTypeId(ty)) # {}

\* The instance the first graph holding k supplies.
FirstMatch(f, k) ==
    LET h == CHOOSE i \in Holders(f, k) : \A j \in Holders(f, k) : i <= j
    IN Consulted(f)[h][k]

Last(s) == s[Len(s)]

\* A provider or client closure is about to run and completes.
ResolvingStep ==
    /\ status = "building"
    /\ stack # <<>>
    /\ CurPhase(Top) \in {"providers", "clients"}
    /\ status' = "building"

(***************************************************************************)
(* C3 -- Search order: the instance a provider or client step obtains for  *)
(* its token, and every dependency it adds to the module's Graph, is the   *)
(* one held by the first of: own Graph, global provider Graph, exported    *)
(* subgraphs of the imports in declaration order.                          *)
(***************************************************************************)
C3_SearchOrderStep ==
    ResolvingStep =>
        LET f == Top
            after == stack'[Len(stack)].module
            k == ArcTypeId(CurStep(f))
            obtained == IF CurPhase(f) = "providers" THEN get_node(after.graph, k)
                        ELSE Last(after.clients)
        IN /\ Holders(f, k) # {} => obtained = FirstMatch(f, k)
           /\ \A d \in DOMAIN after.graph :
                 Holders(f, d) # {} => after.graph[d] = FirstMatch(f, d)

C3_SearchOrder == [][C3_SearchOrderStep]_vars

\* The part of the search order that concerns provider steps and the
\* dependencies memoized by any step.
C3_ProviderSearchOrderStep ==
    ResolvingStep =>
        LET f == Top
            after == stack'[Len(stack)].module
            k == ArcTypeId(CurStep(f))
        IN /\ (CurPhase(f) = "providers" /\ Holders(f, k) # {})
                 => get_node(after.graph, k) = FirstMatch(f, k)
           /\ \A d \in DOMAIN after.graph :
                 Holders(f, d) # {} => after.graph[d] = FirstMatch(f, d)

C3_ProviderSearchOrder == [][C3_ProviderSearchOrderStep]_vars

(***************************************************************************)
(* C4 -- Export visibility: a token a built module provides but does not   *)
(* mark for export is in the module's own Graph, is not in its exported    *)
(* subgraph, and the instance the module made for it appears in no other   *)
(* module.                                                                 *)
(***************************************************************************)
Provided(m) == Range(DeclArgs(m, "provide")) \cup Range(DeclArgs(m, "provide_val"))
Marked(m) == Range(DeclArgs(m, "export")) \cup Range(DeclArgs(m, "export_val"))

InstancesIn(module) == Range(module.clients) \cup {module.graph[k] : k \in DOMAIN module.graph}

C4_ExportVisibility ==
    \A b \in BuiltModules :
       \A ty \in Provided(b.mtype) \ Marked(b.mtype) :
          /\ get_node(b.module.graph, ArcTypeId(ty)) # NoInstance
          /\ ArcTypeId(ty) \notin DOMAIN b.module.graphed_exports
          /\ TypeId(ty) \notin DOMAIN b.module.graphed_exports
          /\ \A o \in AllModules :
                (o.bid # b.bid /\ b.module.graph[ArcTypeId(ty)].home = b.bid)
                   => b.module.graph[ArcTypeId(ty)] \notin InstancesIn(o.module)

\* H imported D, whose Graph holds the unexported U, and H resolved Q2,
\* which needs U.
C4_Witness ==
    /\ status = "done"
    /\ root = "H"
    /\ \E b \in BuiltModules :
          /\ b.mtype = "D"
          /\ b.bid \in Range(result.imports)
          /\ "U" \in Provided("D") \ Marked("D")
          /\ ArcTypeId("U") \in DOMAIN b.module.graph
          /\ ArcTypeId("U") \in DOMAIN result.graph

(***************************************************************************)
(* C5 -- Scenario 1: with A = provide(T).export(T), T without              *)
(* dependencies, and B = import(A).client(T), building B succeeds and the  *)
(* client recorded for T is the instance held for T in A's own Graph.      *)
(***************************************************************************)
Scenario1(b, a, t) ==
    /\ defs[b] = <<Decl("import", a), Decl("client", t)>>
    /\ defs[a] = <<Decl("provide", t), Decl("export", t)>>
    /\ Contract[t] = <<>>

C5_Scenario1SharedClient ==
    \A a \in ModTypes, t \in DOMAIN Contract :
       Scenario1(root, a, t) =>
          /\ status # "failed"
          /\ status = "done" =>
                /\ Len(result.clients) = 1
                /\ Len(result.imports) = 1
                /\ result.clients[1]
                     = get_node(heap[result.imports[1]].module.graph, ArcTypeId(t))

(***************************************************************************)
(* C6 -- Singleton per module: in one module every instance of a token     *)
(* (the node of its Graph, its entries of the client list) is the same     *)
(* instance, and the build() that owns the module ran the token's          *)
(* construction function at most once.                                     *)
(***************************************************************************)
Constructions(bid, ty) ==
    Len(SelectSeq(trace, LAMBDA e : e.kind = "construct" /\ e.bid = bid /\ e.arg = ty))

C6_SingletonPerModule ==
    \A b \in AllModules :
       \A ty \in Types :
          /\ Cardinality({x \in InstancesIn(b.module) : x.ty = ty}) <= 1
          /\ Constructions(b.bid, ty) <= 1

(***************************************************************************)
(* C7 -- Scenario 2: when a provide(T) step has to construct T and a       *)
(* dependency U of T is held by none of the consulted graphs and has no    *)
(* construction contract (the dependencies before it resolving), the       *)
(* build fails with UnresolvedCapability naming U, nothing is stored or    *)
(* returned, and a failed assembly never produces a ResolvedModule.        *)
(***************************************************************************)
RECURSIVE Resolvable(_, _, _)
Resolvable(f, ty, seen) ==
    \/ Held(f, ty)
    \/ /\ ty \in DOMAIN Contract
       /\ ty \notin seen
       /\ \A i \in DOMAIN Contract[ty] :
             Resolvable(f, Contract[ty][i], seen \cup {ty})

\* U = Contract[t][i] is provided nowhere reachable from the frame f.
MissingDependency(f, t, i) ==
    /\ ~Held(f, t)
    /\ ~Held(f, Contract[t][i])
    /\ Contract[t][i] \notin DOMAIN Contract
    /\ \A j \in 1..(i - 1) : Resolvable(f, Contract[t][j], {t})

C7_Step ==
    (status = "building" /\ stack # <<>> /\ CurPhase(Top) = "providers") =>
        \A i \in DOMAIN Contract[CurStep(Top)] :
           MissingDependency(Top, CurStep(Top), i) =>
              /\ status' = "failed"
              /\ error' = [kind |-> "UnresolvedCapability",
                           ty |-> Contract[CurStep(Top)][i]]
              /\ error'.ty # CurStep(Top)
              /\ stack' = <<>>
              /\ UNCHANGED <<result, modules, heap>>

C7_UnresolvedDependencyFails ==
    /\ [](status = "failed" => (result = ResolvedModuleNew /\ stack = <<>>))
    /\ [][C7_Step /\ status # "failed"]_vars

\* E = provide(U).provide(S): S needs W, which nothing provides.
C7_Witness ==
    /\ root = "E"
    /\ status = "failed"
    /\ error = [kind |-> "UnresolvedCapability", ty |-> "W"]
    /\ "S" \in Range(DeclArgs("E", "provide"))
    /\ "W" \in Range(Contract["S"])

(***************************************************************************)
(* C8 -- Scenario 4: when the root X imports only Y and Y imports only X,  *)
(* the build never returns and never fails: every step of it is an import  *)
(* step that starts a fresh build of X or Y one level deeper, and nothing  *)
(* is ever stored in the memo.                                             *)
(***************************************************************************)
ImportCycle ==
    \E y \in ModTypes : ImportsOf(root) = {y} /\ ImportsOf(y) = {root}

C8_CycleStep ==
    (ImportCycle /\ status = "building") =>
        /\ Len(stack') = Len(stack) + 1
        /\ nextBid' = nextBid + 1
        /\ stack'[Len(stack')].bid = nextBid
        /\ stack'[Len(stack')].mtype \in ImportsOf(Top.mtype)
        /\ stack'[Len(stack')].module = ResolvedModuleNew

C8_ImportCycleNeverTerminates ==
    /\ [](ImportCycle =>
            /\ status \in {"ready", "building"}
            /\ error = NoError
            /\ DOMAIN modules = {}
            /\ DOMAIN heap = {}
            /\ result = ResolvedModuleNew)
    /\ [][C8_CycleStep]_vars

\* X and Y have each been entered three times, none of the builds returned.
C8_Witness ==
    /\ root = "X"
    /\ ImportCycle
    /\ BuildCount("X") >= 3
    /\ BuildCount("Y") >= 3
    /\ Len(stack) = BuildCount("X") + BuildCount("Y")

(***************************************************************************)
(* C9 -- Eager providers: a built module has one import list entry per     *)
(* import declaration, in declaration order, and the own Graph of each     *)
(* imported module holds a node for every token that module declared with  *)
(* provide.                                                                *)
(***************************************************************************)
C9_ImportedProvidersResolved ==
    \A b \in BuiltModules :
       /\ Len(b.module.imports) = Len(DeclArgs(b.mtype, "import"))
       /\ \A i \in DOMAIN b.module.imports :
             LET m == heap[b.module.imports[i]]
             IN /\ m.mtype = DeclArgs(b.mtype, "import")[i]
                /\ \A ty \in Range(DeclArgs(m.mtype, "provide")) :
                      get_node(m.module.graph, ArcTypeId(ty)) # NoInstance

\* Q imported G, whose provider U nothing in Q asks for.
C9_Witness ==
    /\ status = "done"
    /\ root = "Q"
    /\ Len(result.imports) = 2
    /\ \E i \in DOMAIN result.imports :
          /\ heap[result.imports[i]].mtype = "G"
          /\ ArcTypeId("U") \in DOMAIN heap[result.imports[i]].module.graph
          /\ ArcTypeId("U") \notin DOMAIN result.graph

(***************************************************************************)
(* C10 -- Client list: a built module's client list has one entry per      *)
(* client declaration, the i-th entry being an instance of the i-th        *)
(* declared client type.                                                   *)
(***************************************************************************)
C10_ClientListMatchesDeclarations ==
    \A b \in BuiltModules :
       /\ Len(b.module.clients) = Len(DeclArgs(b.mtype, "client"))
       /\ \A i \in DOMAIN b.module.clients :
             b.module.clients[i].ty = DeclArgs(b.mtype, "client")[i]

\* F, which declares the clients T and R, is built.
C10_Witness ==
    /\ status = "done"
    /\ root = "F"
    /\ Len(result.clients) = 2
    /\ result.clients[1].ty = "T"
    /\ result.clients[2].ty = "R"

(***************************************************************************)
(* Declarations and the steps that run them.                               *)
(***************************************************************************)
OpOfPhase ==
    [ph \in {"imports", "provider_vals", "providers", "clients"} |->
        CASE ph = "imports"       -> "import"
          [] ph = "provider_vals" -> "provide_val"
          [] ph = "providers"     -> "provide"
          [] ph = "clients"       -> "client"]

\* The positions, in the chain of module type m, of the declarations of
\* kind op.
DeclIndexes(m, op) ==
    SelectSeq([i \in 1..Len(defs[m]) |-> i], LAMBDA i : defs[m][i].op = op)

\* The position in the chain of the declaration whose closure f runs next.
CurDeclIndex(f) == DeclIndexes(f.mtype, OpOfPhase[CurPhase(f)])[f.i]

\* The positions of the declarations whose closures f has already run.
RunDecls(f) ==
    {DeclIndexes(f.mtype, OpOfPhase[PhaseOrder[ph]])[j] :
        <<ph, j>> \in {x \in (1..Len(PhaseOrder)) \X (1..Len(defs[f.mtype])) :
                         /\ x[2] <= Len(DeclIndexes(f.mtype, OpOfPhase[PhaseOrder[x[1]]]))
                         /\ \/ x[1] < f.phase
                            \/ x[1] = f.phase /\ x[2] < f.i}}

DirectDeps(ty) == IF ty \in DOMAIN Contract THEN Range(Contract[ty]) ELSE {}

RECURSIVE DepClosure(_, _)
DepClosure(S, n) ==
    IF n = 0 THEN S
    ELSE DepClosure(S \cup UNION {DirectDeps(ty) : ty \in S}, n - 1)

TransDeps(ty) == DepClosure(DirectDeps(ty), Cardinality(Types))

\* The closure of declaration d can put an instance of ty in the Graph.
Installs(d, ty) ==
    \/ d.op \in {"provide", "provide_val"} /\ d.arg = ty
    \/ d.op \in {"provide", "client"} /\ ty \in TransDeps(d.arg)

\* A provider or client closure is about to run.
AtResolvingStep ==
    /\ status = "building"
    /\ stack # <<>>
    /\ CurPhase(Top) \in {"providers", "clients"}

\* The closure about to run applies the construction contract of its type.
Constructs(f) == CurPhase(f) = "clients" \/ ~Held(f, CurStep(f))

OwnMade(f, ty) ==
    /\ ArcTypeId(ty) \in DOMAIN f.module.graph
    /\ f.module.graph[ArcTypeId(ty)].home = f.bid

\* A dependency held by no consulted graph is constructed by the step that
\* needs it, not by the closure of a declaration that has not run yet.
OnDemandStep ==
    (ResolvingStep /\ Constructs(Top)) =>
        \A d \in DirectDeps(CurStep(Top)) :
           ~Held(Top, d) =>
              LET made == get_node(stack'[Len(stack)].module.graph, ArcTypeId(d))
              IN made.id >= nextInst /\ made.home = Top.bid

(***************************************************************************)
(* C11 -- Ordering invariant as stated: a step that constructs its type    *)
(* uses, among the instances its own module made, only those that a        *)
(* declaration placed before its own can have installed; a dependency      *)
(* declared only later is constructed on demand.                           *)
(***************************************************************************)
C11_DeclaredEarlierStep ==
    (AtResolvingStep /\ Constructs(Top)) =>
        \A d \in DirectDeps(CurStep(Top)) :
           OwnMade(Top, d) =>
              \E q \in RunDecls(Top) :
                 q < CurDeclIndex(Top) /\ Installs(defs[Top.mtype][q], d)

C11_OrderingByDeclaration ==
    [][C11_DeclaredEarlierStep /\ OnDemandStep]_vars

(***************************************************************************)
(* C11 (amended) -- Ordering by phase: when a provider or client step      *)
(* runs, every provide_val value of its module is in the module's Graph    *)
(* and, for a client step, every declared provider too, whatever the       *)
(* declaration order; an instance of the module it depends on was          *)
(* installed by a closure that has already run; a dependency held by no    *)
(* consulted graph is constructed on demand.                               *)
(***************************************************************************)
C11_RunEarlierStep ==
    AtResolvingStep =>
        /\ \A v \in Range(DeclArgs(Top.mtype, "provide_val")) :
              ArcTypeId(v) \in DOMAIN Top.module.graph
        /\ CurPhase(Top) = "clients" =>
              \A ty \in Range(DeclArgs(Top.mtype, "provide")) :
                 ArcTypeId(ty) \in DOMAIN Top.module.graph
        /\ Constructs(Top) =>
              \A d \in DirectDeps(CurStep(Top)) :
                 OwnMade(Top, d) =>
                    \E q \in RunDecls(Top) : Installs(defs[Top.mtype][q], d)

C11_OrderingByPhase == [][C11_RunEarlierStep /\ OnDemandStep]_vars

\* Q declared provide(Z) before provide_val(V), and Z was built from V.
C11_Witness ==
    /\ status = "done"
    /\ root = "Q"
    /\ DeclIndexes("Q", "provide")[1] < DeclIndexes("Q", "provide_val")[1]
    /\ ArcTypeId("Z") \in DOMAIN result.graph
    /\ ArcTypeId("V") \in DOMAIN result.graph
    /\ result.graph[ArcTypeId("Z")].id > result.graph[ArcTypeId("V")].id

(***************************************************************************)
(* C12 -- Cyclic capability: when the construction a provider or client    *)
(* step starts for its type comes back, through dependencies held by no    *)
(* consulted graph, to a type whose construction is still in progress,     *)
(* the step fails with CyclicDependency naming that type and the build     *)
(* fails: nothing is stored or returned.                                   *)
(***************************************************************************)
RECURSIVE Reenters(_, _, _)
\* Constructing x, with the constructions of seen in progress, reaches one
\* of seen again before any other failure.
Reenters(f, x, seen) ==
    /\ x \in DOMAIN Contract
    /\ \E i \in DOMAIN Contract[x] :
          /\ \A j \in 1..(i - 1) : Resolvable(f, Contract[x][j], seen)
          /\ ~Held(f, Contract[x][i])
          /\ \/ Contract[x][i] \in seen
             \/ Reenters(f, Contract[x][i], seen \cup {Contract[x][i]})

C12_Step ==
    (AtResolvingStep /\ Constructs(Top) /\ Reenters(Top, CurStep(Top), {CurStep(Top)}))
        => /\ status' = "failed"
           /\ error'.kind = "CyclicDependency"
           /\ error'.ty \in {CurStep(Top)} \cup TransDeps(CurStep(Top))
           /\ error'.ty \in TransDeps(error'.ty)
           /\ stack' = <<>>
           /\ UNCHANGED <<result, modules, heap>>

C12_CyclicDependencyFails ==
    /\ [](status = "failed" => (result = ResolvedModuleNew /\ stack = <<>>))
    /\ [][C12_Step]_vars

\* Kp = provide(T).provide(K): K needs L, which needs K.
C12_Witness ==
    /\ root = "Kp"
    /\ status = "failed"
    /\ error = [kind |-> "CyclicDependency", ty |-> "K"]
    /\ "K" \in TransDeps("K")

(***************************************************************************)
(* C13 -- Export marks: the exported subgraph of a built module holds      *)
(* exactly the marked keys that its own Graph holds, each with the         *)
(* instance of the own Graph; a token marked with export that no closure   *)
(* of the module provides or resolves is constructed by nobody and is in   *)
(* neither graph, and the module is built all the same.                    *)
(***************************************************************************)
MarkedKeys(m) ==
    {ArcTypeId(ty) : ty \in Range(DeclArgs(m, "export"))}
    \cup {TypeId(ty) : ty \in Range(DeclArgs(m, "export_val"))}

\* No closure of module type m provides or resolves ty.
NeverResolved(m, ty) ==
    \A i \in DOMAIN defs[m] :
       /\ ~Installs(defs[m][i], ty)
       /\ ~(defs[m][i].op = "client" /\ defs[m][i].arg = ty)

C13_ExportMarksOnly ==
    \A b \in BuiltModules :
       /\ DOMAIN b.module.graphed_exports
            = MarkedKeys(b.mtype) \cap DOMAIN b.module.graph
       /\ \A k \in DOMAIN b.module.graphed_exports :
             b.module.graphed_exports[k] = b.module.graph[k]
       /\ \A ty \in Range(DeclArgs(b.mtype, "export")) :
             NeverResolved(b.mtype, ty) =>
                /\ ArcTypeId(ty) \notin DOMAIN b.module.graph
                /\ ArcTypeId(ty) \notin DOMAIN b.module.graphed_exports
                /\ Constructions(b.bid, ty) = 0

\* Ex marks U, which it never provides, and is built; A exports its T.
C13_Witness ==
    /\ status = "done"
    /\ root = "Ex"
    /\ "U" \in Range(DeclArgs("Ex", "export"))
    /\ NeverResolved("Ex", "U")
    /\ ArcTypeId("T") \in DOMAIN result.graph
    /\ DOMAIN result.graphed_exports = {}

(***************************************************************************)
(* C14 -- Exported values: a value a built module installs with            *)
(* provide_val and marks with export_val is in the module's exported       *)
(* subgraph, with the instance of the own Graph, so that a module          *)
(* importing it finds the value among the graphs it consults.              *)
(***************************************************************************)
ExportedValues(m) ==
    Range(DeclArgs(m, "provide_val")) \cap Range(DeclArgs(m, "export_val"))

C14_ExportedValueVisible ==
    /\ \A b \in BuiltModules :
          \A v \in ExportedValues(b.mtype) :
             \E k \in DOMAIN b.module.graphed_exports :
                /\ k.ty = v
                /\ b.module.graphed_exports[k] = get_node(b.module.graph, ArcTypeId(v))
    /\ \A i \in DOMAIN stack :
          \A j \in DOMAIN stack[i].module.imports :
             \A v \in ExportedValues(heap[stack[i].module.imports[j]].mtype) :
                Held(stack[i], v)

(***************************************************************************)
(* C15 -- Duplicate registration: the builder records the declared tokens  *)
(* and build never looks at them; a provide_val step always succeeds and   *)
(* leaves its own value in the Graph, replacing an earlier one; a provide  *)
(* step for a token the Graph already holds constructs nothing and         *)
(* changes nothing; no later step replaces an entry; a build fails only    *)
(* in a provider or client step, with UnresolvedCapability or              *)
(* CyclicDependency.                                                       *)
(***************************************************************************)
DeclaredTokens(m) ==
    {TypeId(defs[m][i].arg) :
        i \in {j \in DOMAIN defs[m] :
                 defs[m][j].op \in {"provide", "provide_val", "client"}}}

C15_Step ==
    (status = "building" /\ stack # <<>>) =>
        LET f == Top
            g == f.module.graph
        IN /\ CurPhase(f) = "provider_vals" =>
                /\ status' = "building"
                /\ stack'[Len(stack)].module.graph
                     = [k \in DOMAIN g \cup {ArcTypeId(CurStep(f))} |->
                          IF k = ArcTypeId(CurStep(f))
                          THEN Instance(nextInst, CurStep(f), f.bid)
                          ELSE g[k]]
           /\ (CurPhase(f) = "providers" /\ ArcTypeId(CurStep(f)) \in DOMAIN g) =>
                /\ status' = "building"
                /\ stack'[Len(stack)].module.graph = g
                /\ nextInst' = nextInst
           /\ (CurPhase(f) \in {"providers", "clients"} /\ status' = "building") =>
                \A k \in DOMAIN g : stack'[Len(stack)].module.graph[k] = g[k]
           /\ status' = "failed" =>
                /\ CurPhase(f) \in {"providers", "clients"}
                /\ error'.kind \in {"UnresolvedCapability", "CyclicDependency"}

C15_DuplicatesAreSilent ==
    /\ [](\A i \in DOMAIN stack :
             stack[i].self.tokens = DeclaredTokens(stack[i].mtype))
    /\ [][C15_Step]_vars

\* Dup declares provide(T) twice and provide_val(V) twice and is built:
\* its Graph holds the second value and one T.
C15_Witness ==
    /\ status = "done"
    /\ root = "Dup"
    /\ Len(DeclArgs("Dup", "provide_val")) = 2
    /\ Len(SelectSeq(DeclArgs("Dup", "provide"), LAMBDA ty : ty = "T")) = 2
    /\ result.graph[ArcTypeId("V")].id = FirstFreeInstance + 1
    /\ Constructions(RootBid, "T") <= 1
    /\ Constructions(RootBid, "R") = 1

Terminated == status \in {"done", "failed"}

Reachable(m) == {m} \cup TransImports(m)

ImportAcyclic == \A m \in Reachable(root) : m \notin TransImports(m)

\* The types the closures of module type m resolve.
ResolvedTypes(m) ==
    Range(DeclArgs(m, "provide")) \cup Range(DeclArgs(m, "client"))

CapabilityAcyclic ==
    \A m \in Reachable(root) :
       \A ty \in ResolvedTypes(m) :
          \A d \in {ty} \cup TransDeps(ty) : d \notin TransDeps(d)

(***************************************************************************)
(* C16 -- Termination: when neither the imports reachable from the root    *)
(* nor the dependencies of the types its modules resolve form a cycle,     *)
(* the build can always take its next step until it is done or failed,     *)
(* and takes none after that; it runs at most the steps of the module      *)
(* types involved, each built at most once, and never nests builds deeper  *)
(* than their number.                                                      *)
(***************************************************************************)
Acyclic == ImportAcyclic /\ CapabilityAcyclic

RECURSIVE TotalSteps(_)
TotalSteps(S) ==
    IF S = {} THEN 0
    ELSE LET m == CHOOSE x \in S : TRUE
         IN Len(PhasedSteps(m)) + TotalSteps(S \ {m})

StepsRun == Len(SelectSeq(trace, LAMBDA e : e.kind \in StepKinds))

C16_AcyclicBuildTerminates ==
    Acyclic =>
        /\ Terminated <=> ~ENABLED Next
        /\ StepsRun <= TotalSteps(Reachable(root))
        /\ \A m \in ModTypes : BuildCount(m) <= 1
        /\ Len(stack) <= Cardinality(Reachable(root))

\* P, which reaches three module types, is built with every one built once.
C16_Witness ==
    /\ root = "P"
    /\ Acyclic
    /\ status = "done"
    /\ Cardinality(Reachable(root)) = 4
    /\ \A m \in Reachable(root) : BuildCount(m) = 1

(***************************************************************************)
(* C17 -- Frozen modules: a module in the memo or on an import list is a   *)
(* shared ResolvedModule whose build has run all its steps and computed    *)
(* its exported subgraph, and is no longer in progress; no step changes a  *)
(* shared ResolvedModule, and no step removes or replaces a memo entry.    *)
(***************************************************************************)
Frozen(mid) ==
    /\ mid \in DOMAIN heap
    /\ StepsOf(mid) = PhasedSteps(heap[mid].mtype)
    /\ heap[mid].module.graphed_exports
         = [k \in MarkedKeys(heap[mid].mtype) \cap DOMAIN heap[mid].module.graph |->
              heap[mid].module.graph[k]]
    /\ \A i \in DOMAIN stack : stack[i].bid # mid

C17_StoredWhenBuilt ==
    /\ \A m \in DOMAIN modules :
          Frozen(modules[m]) /\ heap[modules[m]].mtype = m
    /\ \A b \in AllModules :
          \A i \in DOMAIN b.module.imports :
             /\ Frozen(b.module.imports[i])
             /\ heap[b.module.imports[i]].mtype \in DOMAIN modules
             /\ modules[heap[b.module.imports[i]].mtype] = b.module.imports[i]

C17_NeverChangedStep ==
    /\ \A mid \in DOMAIN heap :
          mid \in DOMAIN heap' /\ heap'[mid] = heap[mid]
    /\ \A m \in DOMAIN modules :
          m \in DOMAIN modules' /\ modules'[m] = modules[m]

C17_FrozenOnceStored ==
    [](C17_StoredWhenBuilt) /\ [][C17_NeverChangedStep]_vars

\* A is stored and attached to B, which P is still importing.
C17_Witness ==
    /\ root = "P"
    /\ status = "building"
    /\ Len(stack) = 2
    /\ Top.mtype = "B"
    /\ DOMAIN modules = {"A"}
    /\ Top.module.imports = <<modules["A"]>>
    /\ CurPhase(Top) = "clients"

(***************************************************************************)
(* C18 -- Memo contents: when the root build is done, the memo holds       *)
(* exactly the module types the root imports directly or through its       *)
(* imports, each mapped to its own shared ResolvedModule, and not the      *)
(* root.                                                                   *)
(***************************************************************************)
C18_MemoHoldsTransitiveImports ==
    (status = "done" /\ ImportAcyclic) =>
        /\ DOMAIN modules = TransImports(root)
        /\ root \notin DOMAIN modules
        /\ \A m \in DOMAIN modules :
              modules[m] \in DOMAIN heap /\ heap[modules[m]].mtype = m
        /\ \A m1, m2 \in DOMAIN modules : modules[m1] = modules[m2] => m1 = m2
        /\ DOMAIN heap = {modules[m] : m \in DOMAIN modules}
        /\ RootBid \notin DOMAIN heap

\* H is built: the memo holds D and G.
C18_Witness ==
    /\ root = "H"
    /\ status = "done"
    /\ DOMAIN modules = {"D", "G"}
    /\ Cardinality(DOMAIN heap) = 2

(***************************************************************************)
(* C19 -- One-directional visibility: every instance in a module was made  *)
(* by the module's own build, seeded in the global provider Graph, or      *)
(* exported by one of the module's own imports; a build in progress holds  *)
(* no instance made by a module that is importing it, and its steps leave  *)
(* the Graph and client list of every importer below it as they were.      *)
(***************************************************************************)
ExportedBy(mid) ==
    {heap[mid].module.graphed_exports[k] : k \in DOMAIN heap[mid].module.graphed_exports}

C19_Provenance ==
    /\ \A b \in AllModules :
          \A x \in InstancesIn(b.module) :
             \/ x.home = b.bid
             \/ x \in {global_providers[k] : k \in DOMAIN global_providers}
             \/ \E i \in DOMAIN b.module.imports : x \in ExportedBy(b.module.imports[i])
    /\ \A i, j \in DOMAIN stack :
          i < j => \A x \in InstancesIn(stack[j].module) : x.home # stack[i].bid

C19_ImporterUntouchedStep ==
    (status = "building" /\ Len(stack) > 1) =>
        \A i \in 1..(Len(stack) - 1) :
           i <= Len(stack') =>
              /\ stack'[i].module.graph = stack[i].module.graph
              /\ stack'[i].module.clients = stack[i].module.clients
              /\ stack'[i].bid = stack[i].bid

C19_OneDirectionalVisibility ==
    [](C19_Provenance) /\ [][C19_ImporterUntouchedStep]_vars

\* Vb2 declares provide_val(V) and imports Zm, whose Z needs V: the build
\* of Zm does not find V.
C19_Witness ==
    /\ root = "Vb2"
    /\ "V" \in Range(DeclArgs("Vb2", "provide_val"))
    /\ "Zm" \in ImportsOf("Vb2")
    /\ status = "failed"
    /\ error = [kind |-> "UnresolvedCapability", ty |-> "V"]
    /\ Len(EventsOf({"provide"}, "Zm")) = 1

=============================================================================
